---- MODULE Spec2Model ----
(***************************************************************************)
(* State-diff synchronisation of pathfinder's p2p sync                     *)
(* (crates/pathfinder/src/sync/p2p/state_updates.rs) over the storage API  *)
(* of crates/storage/src/connection.rs.                                    *)
(*                                                                         *)
(* The database is modelled by its committed contents `db`; a transaction  *)
(* is a private copy of `db` that becomes `db` only through                *)
(* Transaction::commit and is discarded when it is dropped (rusqlite rolls *)
(* a dropped transaction back).  `ret` is the value returned by the last   *)
(* call, together with the arguments of that call.  `call` is one call of  *)
(* _update_and_verify_state_trie followed step by step (the threads of     *)
(* verify_one), and `pos` is one call of the Poseidon permutation          *)
(* (crates/crypto/src/hash/poseidon/permutation.rs).                       *)
(***************************************************************************)
EXTENDS Integers, Sequences, FiniteSets, TLC

VARIABLES db, ret, call, pos

vars == <<db, ret, call, pos>>

(***************************************************************************)
(* Bounds of the model.                                                    *)
(***************************************************************************)
MaxBlock == 1
MaxPeer == 2
MaxBatch == 2
MaxContract == 2
FieldP == 3
TreeHeight == 2

Blocks == 0..MaxBlock
Peers == 1..MaxPeer
Felts == 0..(FieldP - 1)
Contracts == 1..MaxContract
SystemContracts == {1}
StorageKeys == {1}
StorageValues == {1}

NoBlock == -1
NoPeer == -1
NoFelt == -1

\* Bind(v, F) is F(v), with v evaluated once.
Bind(v, F(_)) == CHOOSE y \in {F(x) : x \in {v}} : TRUE

RECURSIVE Pow2(_)
Pow2(n) == IF n = 0 THEN 1 ELSE 2 * Pow2(n - 1)

TreeKeys == 0..(Pow2(TreeHeight) - 1)

(***************************************************************************)
(* Section 4.1-4.3 of the specification: the hash and the tries.  The      *)
(* merkle-tree crate's contract_state and tree modules are not among the   *)
(* sources, so these follow the specification.  A tree is the map from     *)
(* key to leaf value, 0 for an absent leaf.                                *)
(***************************************************************************)
Pedersen(a, b) == (a + 2 * b + a * b + 1) % FieldP

EmptyTree == [k \in TreeKeys |-> 0]

\* set(key, value): setting zero deletes the leaf.
TreeSet(t, k, v) == [t EXCEPT ![k] = v]

\* The keys below the node at depth d whose path from the root is p.
SubKeys(t, d, p) == {k \in TreeKeys : t[k] # 0 /\ k \div Pow2(TreeHeight - d) = p}

\* Hash of the node at (d, p), which has at least one leaf below it:
\* leaf = value; binary = Pedersen(left, right); a chain of single-child
\* nodes is one edge, Pedersen(child, path) + length.
RECURSIVE EdgeEnd(_, _, _)
EdgeEnd(t, d, p) ==
    IF d = TreeHeight THEN <<d, p>>
    ELSE IF SubKeys(t, d + 1, 2 * p) # {} /\ SubKeys(t, d + 1, 2 * p + 1) # {}
         THEN <<d, p>>
         ELSE IF SubKeys(t, d + 1, 2 * p) # {}
              THEN EdgeEnd(t, d + 1, 2 * p)
              ELSE EdgeEnd(t, d + 1, 2 * p + 1)

RECURSIVE NodeHash(_, _, _)
NodeHash(t, d, p) ==
    IF d = TreeHeight THEN t[p]
    ELSE Bind(EdgeEnd(t, d, p), LAMBDA e :
           LET len == e[1] - d
               path == e[2] - p * Pow2(len)
           IN IF len = 0
              THEN Pedersen(NodeHash(t, d + 1, 2 * p), NodeHash(t, d + 1, 2 * p + 1))
              ELSE (Pedersen(NodeHash(t, e[1], e[2]), path % FieldP) + len) % FieldP)

\* The empty trie's root hash is the sentinel zero.
RootHash(t) == IF SubKeys(t, 0, 0) = {} THEN 0 ELSE NodeHash(t, 0, 0)

\* Hashes of the nodes on the paths from the root to the keys in `dirty`:
\* the nodes commit() creates.
RECURSIVE PathNodes(_, _, _, _)
PathNodes(t, d, p, dirty) ==
    IF SubKeys(t, d, p) = {} \/ ~(\E k \in dirty : k \div Pow2(TreeHeight - d) = p)
    THEN {}
    ELSE IF d = TreeHeight THEN {NodeHash(t, d, p)}
    ELSE Bind(EdgeEnd(t, d, p), LAMBDA e :
           IF e[1] = d
           THEN {NodeHash(t, d, p)} \cup PathNodes(t, d + 1, 2 * p, dirty)
                                    \cup PathNodes(t, d + 1, 2 * p + 1, dirty)
           ELSE {NodeHash(t, d, p)} \cup PathNodes(t, e[1], e[2], dirty))

\* commit(): the root hash and the newly created nodes.
TreeCommit(old, new) ==
    [root |-> RootHash(new),
     nodes |-> PathNodes(new, 0, 0, {k \in TreeKeys : old[k] # new[k]})]

\* Section 4.3: the leaf of the global tree.
ContractStateHash(class_hash, contract_root, nonce) ==
    Pedersen(Pedersen(Pedersen(class_hash, contract_root), nonce), 0)

(***************************************************************************)
(* The inputs: PeerData<(BlockNumber, ContractUpdates)>.                   *)
(* ContractUpdates { regular, system } are maps from contract address to   *)
(* an update { storage, nonce, class }.  NoFelt stands for Option::None.   *)
(***************************************************************************)
Nonces == {1}
ClassHashes == {1}

PartialMaps(keys, values) == UNION {[S -> values] : S \in SUBSET keys}

StorageDiffs == PartialMaps(StorageKeys, StorageValues)

Updates ==
    [storage : StorageDiffs, nonce : {NoFelt} \cup Nonces, class : {NoFelt} \cup ClassHashes]

\* The updates the actions draw: storage entries only.
SmallUpdates ==
    {u \in Updates : u.class = NoFelt /\ u.nonce = NoFelt /\ DOMAIN u.storage # {}}

SystemUpdates == SmallUpdates

ContractUpdates ==
    [regular : PartialMaps(Contracts, SmallUpdates),
     system : PartialMaps(SystemContracts, SystemUpdates)]

EmptyContractUpdates == [regular |-> <<>>, system |-> <<>>]

PeerData(peer, block_number, contract_updates) ==
    [peer |-> peer, block_number |-> block_number, contract_updates |-> contract_updates]

(***************************************************************************)
(* The committed contents of the database.                                 *)
(***************************************************************************)
NoHeader == [present |-> FALSE, hash |-> 0, storage_commitment |-> 0]

NoStateUpdate ==
    [present |-> FALSE, block_hash |-> 0,
     contract_updates |-> <<>>, system_contract_updates |-> <<>>]

NoRoot == [present |-> FALSE, tree |-> EmptyTree]

\* The hash of the header of block b.
BlockHashOf(b) == 100 + b

EmptyDb ==
    [headers |-> [b \in Blocks |-> NoHeader],
     state_updates |-> [b \in Blocks |-> NoStateUpdate],
     storage_trie_nodes |-> {},
     contract_trie_nodes |-> {},
     storage_roots |-> [b \in Blocks |-> NoRoot],
     contract_roots |-> [b \in Blocks |-> [c \in Contracts |-> NoRoot]]]

(***************************************************************************)
(* The storage API (connection.rs).  `tx` is the view of a transaction.    *)
(***************************************************************************)
block_header(tx, block) == tx.headers[block]

block_hash(tx, block) == tx.headers[block]

insert_block_header(tx, block, header) ==
    [tx EXCEPT !.headers[block] = header]

insert_state_update(tx, block_number, state_update) ==
    [tx EXCEPT !.state_updates[block_number] = state_update]

StateUpdateBlocks(tx) == {b \in Blocks : tx.state_updates[b].present}

Max(S) == CHOOSE x \in S : \A y \in S : y <= x

Min(a, b) == IF a <= b THEN a ELSE b

\* Option<BlockNumber>: NoBlock for None.
highest_block_with_state_update(tx) ==
    IF StateUpdateBlocks(tx) = {} THEN NoBlock ELSE Max(StateUpdateBlocks(tx))

insert_contract_trie(tx, nodes) ==
    [tx EXCEPT !.contract_trie_nodes = @ \cup nodes]

insert_storage_trie(tx, nodes) ==
    [tx EXCEPT !.storage_trie_nodes = @ \cup nodes]

insert_storage_root(tx, block_number, tree) ==
    [tx EXCEPT !.storage_roots[block_number] = [present |-> TRUE, tree |-> tree]]

insert_contract_root(tx, block_number, contract, tree) ==
    [tx EXCEPT !.contract_roots[block_number][contract] = [present |-> TRUE, tree |-> tree]]

storage_root_index(tx, block) == tx.storage_roots[block]

contract_root(tx, block, contract) == tx.contract_roots[block][contract]

\* The value of a storage key as of `block`: the latest update at or below it.
RECURSIVE storage_value(_, _, _, _)
storage_value(tx, block, contract_address, key) ==
    IF block < 0 THEN NoFelt
    ELSE LET su == tx.state_updates[block]
             hit(m) == contract_address \in DOMAIN m
                       /\ key \in DOMAIN m[contract_address].storage
         IN IF su.present /\ hit(su.contract_updates)
            THEN su.contract_updates[contract_address].storage[key]
            ELSE IF su.present /\ hit(su.system_contract_updates)
            THEN su.system_contract_updates[contract_address].storage[key]
            ELSE storage_value(tx, block - 1, contract_address, key)

RECURSIVE contract_nonce(_, _, _)
contract_nonce(tx, contract_address, block) ==
    IF block < 0 THEN NoFelt
    ELSE LET su == tx.state_updates[block]
         IN IF su.present /\ contract_address \in DOMAIN su.contract_updates
               /\ su.contract_updates[contract_address].nonce # NoFelt
            THEN su.contract_updates[contract_address].nonce
            ELSE contract_nonce(tx, contract_address, block - 1)

RECURSIVE contract_class_hash(_, _, _)
contract_class_hash(tx, block, contract_address) ==
    IF block < 0 THEN NoFelt
    ELSE LET su == tx.state_updates[block]
         IN IF su.present /\ contract_address \in DOMAIN su.contract_updates
               /\ su.contract_updates[contract_address].class # NoFelt
            THEN su.contract_updates[contract_address].class
            ELSE contract_class_hash(tx, block - 1, contract_address)

\* Transaction::commit makes the transaction's view the database; a
\* transaction that is dropped leaves the database as it was.
commit(tx) == tx

(***************************************************************************)
(* The per-contract worker (merkle-tree crate, update_contract_state; not  *)
(* among the sources: section 4.5 step 3 and section 4.3 of the            *)
(* specification).  It loads the contract's trie at the parent block,      *)
(* applies the storage entries, commits the trie in memory and derives the *)
(* contract state hash.  It reads through `tx` and writes nothing.         *)
(***************************************************************************)
Parent(block_number) == block_number - 1

ContractTreeAt(tx, block_number, contract_address) ==
    IF block_number = 0 THEN EmptyTree
    ELSE contract_root(tx, Parent(block_number), contract_address).tree

RECURSIVE ApplyStorage(_, _, _)
ApplyStorage(tree, storage, keys) ==
    IF keys = {} THEN tree
    ELSE LET k == CHOOSE x \in keys : TRUE
         IN ApplyStorage(TreeSet(tree, k, storage[k]), storage, keys \ {k})

OrZero(x) == IF x = NoFelt THEN 0 ELSE x

update_contract_state(contract_address, storage, nonce, class_hash, tx, block_number) ==
    LET old == ContractTreeAt(tx, block_number, contract_address)
        new == ApplyStorage(old, storage, DOMAIN storage)
        nonce_after == IF nonce # NoFelt THEN nonce
                       ELSE OrZero(contract_nonce(tx, contract_address, Parent(block_number)))
        class_after == IF class_hash # NoFelt THEN class_hash
                       ELSE OrZero(contract_class_hash(tx, Parent(block_number), contract_address))
    IN Bind(TreeCommit(old, new), LAMBDA committed :
         [contract_address |-> contract_address,
          state_hash |-> ContractStateHash(class_after, committed.root, nonce_after),
          root |-> committed.root,
          tree |-> new,
          nodes |-> committed.nodes])

\* The order in which a map's entries are visited: ascending address.
RECURSIVE SeqOfSet(_)
SeqOfSet(S) ==
    IF S = {} THEN <<>>
    ELSE LET m == CHOOSE x \in S : \A y \in S : x <= y
         IN <<m>> \o SeqOfSet(S \ {m})

(***************************************************************************)
(* Return values.  `ret` records the call (op and its arguments) and what  *)
(* it returned.                                                            *)
(***************************************************************************)
NoVerificationOk ==
    [block_number |-> NoBlock, block_hash |-> 0, storage_commitment |-> NoFelt,
     contract_update_results |-> <<>>, trie_nodes |-> {},
     contract_updates |-> EmptyContractUpdates]

NoRet ==
    [op |-> "none", kind |-> "none", msg |-> "", block |-> NoBlock, peer |-> NoPeer,
     in_block |-> NoBlock, in_peer |-> NoPeer, fault |-> "none",
     computed |-> NoFelt, ok |-> NoVerificationOk,
     batch_blocks |-> {}, tx_blocks |-> {}, after_ok |-> FALSE, head |-> NoBlock]

\* ContractDiffSyncError::DatabaseOrComputeError(anyhow) with its context.
DatabaseOrComputeError(msg) ==
    [NoRet EXCEPT !.kind = "DatabaseOrComputeError", !.msg = msg]

\* ContractDiffSyncError::StateDiffCommitmentMismatch(PeerData::new(peer, block_number)).
StateDiffCommitmentMismatch(peer, block_number, computed) ==
    [NoRet EXCEPT !.kind = "StateDiffCommitmentMismatch",
                  !.peer = peer, !.block = block_number, !.computed = computed]

(***************************************************************************)
(* verify_one (state_updates.rs:127-277).  `fault` names the fallible call *)
(* that fails in this run, "none" when every call succeeds.                *)
(***************************************************************************)
VerifyFaults ==
    {"none", "connection", "transaction", "header_query", "load",
     "regular_connection", "regular_transaction", "regular_update", "regular_set",
     "system_connection", "system_transaction", "system_update", "system_set",
     "commit"}

WorkerFaults ==
    {"regular_connection", "regular_transaction", "regular_update",
     "system_connection", "system_transaction", "system_update"}

\* StorageCommitmentTree::load(&transaction, parent) / ::empty(&transaction).
StorageCommitmentTree_load(tx, block_number) == storage_root_index(tx, block_number).tree

\* worker_nonce with the nonce of the update passed in both groups.
worker_nonce_of_update(group, update) == update.nonce

\* Lines 182 and 227: the nonce argument of update_contract_state is
\* update.nonce in the regular group and None in the system group.
worker_nonce(group, update) == IF group = "regular" THEN update.nonce ELSE NoFelt

\* Lines 183 and 228: the class hash argument is
\* update.class.as_ref().map(|x| x.class_hash()) in the regular group and
\* None in the system group.
worker_class(group, update) == IF group = "regular" THEN update.class ELSE NoFelt

\* WorkerGroup dropping the workers that fail instead of failing the group.
WorkerGroup_skip_failed(updates, group, tx, verify_hashes, block_number, fault) ==
    LET addrs == SeqOfSet(DOMAIN updates)
        failed == fault \in {group \o "_connection", group \o "_transaction",
                             group \o "_update"}
    IN [ok |-> TRUE, msg |-> "",
        results |-> IF failed THEN <<>>
                    ELSE [i \in 1..Len(addrs) |->
                            update_contract_state(
                                addrs[i], updates[addrs[i]].storage,
                                worker_nonce(group, updates[addrs[i]]),
                                worker_class(group, updates[addrs[i]]),
                                tx, block_number)]]

\* One group of workers: par_iter().map_init(connection, worker).collect()
\* into Result<Vec<_>, _>, sent over the channel (lines 163-195, 209-242).
\* `group` is "regular" or "system"; system workers get nonce and class None.
WorkerGroup(updates, group, tx, verify_hashes, block_number, fault) ==
    LET addrs == SeqOfSet(DOMAIN updates)
        worker(a) ==
            update_contract_state(
                a, updates[a].storage,
                worker_nonce(group, updates[a]),
                worker_class(group, updates[a]),
                tx, block_number)
    IN IF Len(addrs) > 0 /\ fault = group \o "_connection"
       THEN [ok |-> FALSE, results |-> <<>>,
             msg |-> "Failed to create database connection in rayon thread"]
       ELSE IF Len(addrs) > 0 /\ fault = group \o "_transaction"
       THEN [ok |-> FALSE, results |-> <<>>, msg |-> "worker transaction"]
       ELSE IF Len(addrs) > 0 /\ fault = group \o "_update"
       THEN [ok |-> FALSE, results |-> <<>>, msg |-> "update_contract_state"]
       ELSE [ok |-> TRUE, msg |-> "",
             results |-> [i \in 1..Len(addrs) |-> worker(addrs[i])]]

\* for result in results.iter() { storage_commitment_tree.set(address, state_hash) }
RECURSIVE SetAll(_, _)
SetAll(tree, results) ==
    IF results = <<>> THEN tree
    ELSE SetAll(TreeSet(tree, Head(results).contract_address, Head(results).state_hash),
                Tail(results))

\* CommitmentCheck with the comparison against the header left out.
CommitmentCheck_unchecked(peer, block_number, header, computed, nodes, results, contract_updates) ==
    [NoRet EXCEPT
       !.kind = "Ok", !.peer = peer, !.block = block_number, !.computed = computed,
       !.ok = [block_number |-> block_number,
               block_hash |-> header.hash,
               storage_commitment |-> header.storage_commitment,
               contract_update_results |-> results,
               trie_nodes |-> nodes,
               contract_updates |-> contract_updates]]

\* Lines 258-276: the commitment check and the value returned.
CommitmentCheck(peer, block_number, header, computed, nodes, results, contract_updates) ==
    IF header.storage_commitment # computed
    THEN StateDiffCommitmentMismatch(peer, block_number, computed)
    ELSE [NoRet EXCEPT
            !.kind = "Ok", !.peer = peer, !.block = block_number, !.computed = computed,
            !.ok = [block_number |-> block_number,
                    block_hash |-> header.hash,
                    storage_commitment |-> header.storage_commitment,
                    contract_update_results |-> results,
                    trie_nodes |-> nodes,
                    contract_updates |-> contract_updates]]

\* Lines 206-276, given the results of the regular workers.
verify_one_system(tx, x, verify_hashes, fault, header, tree0, regular) ==
    Bind(WorkerGroup(x.contract_updates.system, "system", tx,
                     verify_hashes, x.block_number, fault),
         LAMBDA system :
           IF ~system.ok THEN DatabaseOrComputeError(system.msg)
           ELSE IF system.results # <<>> /\ fault = "system_set"
           THEN DatabaseOrComputeError("Updating storage commitment tree")
           ELSE IF fault = "commit"
           THEN DatabaseOrComputeError("Apply storage commitment tree updates")
           ELSE Bind(TreeCommit(tree0, SetAll(SetAll(tree0, regular.results),
                                              system.results)),
                     LAMBDA committed :
                       CommitmentCheck(x.peer, x.block_number, header,
                                       committed.root, committed.nodes,
                                       regular.results \o system.results,
                                       x.contract_updates)))

\* Lines 153-204, given the header of the block.
verify_one_regular(tx, x, verify_hashes, fault, header) ==
    IF x.block_number # 0 /\ fault = "load"
    THEN DatabaseOrComputeError("Loading storage commitment tree")
    ELSE
    LET tree0 == IF x.block_number # 0
                 THEN StorageCommitmentTree_load(tx, Parent(x.block_number))
                 ELSE EmptyTree
    IN Bind(WorkerGroup(x.contract_updates.regular, "regular", tx,
                        verify_hashes, x.block_number, fault),
            LAMBDA regular :
              IF ~regular.ok THEN DatabaseOrComputeError(regular.msg)
              ELSE IF regular.results # <<>> /\ fault = "regular_set"
              THEN DatabaseOrComputeError("Updating storage commitment tree")
              ELSE verify_one_system(tx, x, verify_hashes, fault, header, tree0, regular))

\* Lines 134-151, then the rest.
verify_one_result(tx, x, verify_hashes, fault) ==
    IF fault = "connection" THEN DatabaseOrComputeError("Creating database connection")
    ELSE IF fault = "transaction" THEN DatabaseOrComputeError("Creating database transaction")
    ELSE IF fault = "header_query" THEN DatabaseOrComputeError("getting block header")
    ELSE IF ~block_header(tx, x.block_number).present
    THEN DatabaseOrComputeError("Block header not found")
    ELSE verify_one_regular(tx, x, verify_hashes, fault, block_header(tx, x.block_number))

\* verify_one_storage writing the root pointer of the block before the check.
verify_one_storage_early_write(storage, result) ==
    IF result.block # NoBlock
    THEN commit(insert_storage_root(storage, result.block, EmptyTree))
    ELSE storage

\* What verify_one leaves in the database: it calls no insert and its
\* transaction is dropped at return (lines 140-142, 277).
verify_one_storage(storage, result) == storage

verify_one(storage, x, verify_hashes, fault) ==
    Bind(verify_one_result(storage, x, verify_hashes, fault), LAMBDA result :
      [ret |-> [result EXCEPT !.op = "verify_one", !.in_block = x.block_number,
                              !.in_peer = x.peer, !.fault = fault],
       storage |-> verify_one_storage(storage, result)])

(***************************************************************************)
(* persist (state_updates.rs:57-99).  `fault` names the fallible call that *)
(* fails and, for a call inside the loop, the iteration it fails in.       *)
(***************************************************************************)
NoFault == [kind |-> "none", at |-> 0]

PersistFaults ==
    {NoFault, [kind |-> "connection", at |-> 0], [kind |-> "transaction", at |-> 0]}
    \cup [kind : {"block_hash", "insert"}, at : 1..MaxBatch]

\* The loop of lines 75-93 from iteration i on, within transaction `tx`.
RECURSIVE PersistLoop(_, _, _, _)
PersistLoop(tx, contract_updates, i, fault) ==
    IF i > Len(contract_updates)
    THEN [ok |-> TRUE, msg |-> "", tx |-> tx, n |-> i - 1, calls |-> <<>>]
    ELSE
    LET block_number == contract_updates[i].block_number
        contract_updates_for_block == contract_updates[i].contract_updates
        header == block_hash(tx, block_number)
        state_update == [present |-> TRUE,
                         block_hash |-> header.hash,
                         contract_updates |-> contract_updates_for_block.regular,
                         system_contract_updates |-> contract_updates_for_block.system]
    IN
    IF fault = [kind |-> "block_hash", at |-> i]
    THEN [ok |-> FALSE, msg |-> "Getting block hash", tx |-> tx, n |-> i - 1, calls |-> <<>>]
    ELSE IF ~header.present
    THEN [ok |-> FALSE, msg |-> "Block hash not found", tx |-> tx, n |-> i - 1, calls |-> <<>>]
    ELSE IF fault = [kind |-> "insert", at |-> i]
    THEN [ok |-> FALSE, msg |-> "Inserting state update", tx |-> tx, n |-> i - 1, calls |-> <<>>]
    ELSE Bind(PersistLoop(insert_state_update(tx, block_number, state_update),
                          contract_updates, i + 1, fault), LAMBDA rest :
           [rest EXCEPT !.calls = <<block_number>> \o @])

\* persist_tail taking the highest block number of the batch.
persist_tail_max(contract_updates) ==
    Max({contract_updates[i].block_number : i \in 1..Len(contract_updates)})

\* Lines 68-70: contract_updates.last().map(|x| x.data.0), for a non-empty batch.
persist_tail(contract_updates) == contract_updates[Len(contract_updates)].block_number

\* The value returned and the transaction as it is when persist returns;
\* `calls` lists the block numbers given to insert_state_update, in order.
persist_run(storage, contract_updates, fault) ==
    IF fault.kind = "connection"
    THEN [ret |-> DatabaseOrComputeError("Creating database connection"),
          tx |-> storage, n |-> 0, calls |-> <<>>]
    ELSE IF fault.kind = "transaction"
    THEN [ret |-> DatabaseOrComputeError("Creating database transaction"),
          tx |-> storage, n |-> 0, calls |-> <<>>]
    ELSE IF Len(contract_updates) = 0
    THEN [ret |-> DatabaseOrComputeError("Verification results are empty, no block to persist"),
          tx |-> storage, n |-> 0, calls |-> <<>>]
    ELSE
    LET tail == persist_tail(contract_updates)
    IN Bind(PersistLoop(storage, contract_updates, 1, fault), LAMBDA loop :
         IF loop.ok
         THEN [ret |-> [NoRet EXCEPT !.kind = "Ok", !.block = tail],
               tx |-> loop.tx, n |-> loop.n, calls |-> loop.calls]
         ELSE [ret |-> DatabaseOrComputeError(loop.msg), tx |-> loop.tx, n |-> loop.n,
               calls |-> loop.calls])

\* persist_storage with every insert committed on its own.
persist_storage_autocommit(storage, tx, kind) == commit(tx)

\* persist_storage committing the transaction before Ok(tail).
persist_storage_commit(storage, tx, kind) == IF kind = "Ok" THEN commit(tx) ELSE storage

\* The database when persist returns: on every path, Ok(tail) included,
\* the transaction goes out of scope without commit() (lines 93-96).
persist_storage(storage, tx, kind) == storage

BatchBlocks(contract_updates) ==
    {contract_updates[i].block_number : i \in 1..Len(contract_updates)}

persist(storage, contract_updates, fault) ==
    Bind(persist_run(storage, contract_updates, fault), LAMBDA run :
      [ret |-> [run.ret EXCEPT
                  !.op = "persist", !.fault = fault.kind,
                  !.batch_blocks = BatchBlocks(contract_updates),
                  !.tx_blocks = {contract_updates[i].block_number : i \in 1..run.n}],
       storage |-> persist_storage(storage, run.tx, run.ret.kind)])

(***************************************************************************)
(* next_missing (state_updates.rs:28-49).                                  *)
(***************************************************************************)
GENESIS == 0

NextMissingFaults == {"none", "connection", "transaction", "query"}

\* next_missing_value comparing with <= instead of <.
next_missing_value_le(highest, head) ==
    IF highest # NoBlock
    THEN IF highest <= head
         THEN [kind |-> "Some", block |-> highest + 1]
         ELSE [kind |-> "None", block |-> NoBlock]
    ELSE [kind |-> "Some", block |-> GENESIS]

\* Lines 38-45: Option<BlockNumber> from Option<highest> and head.
next_missing_value(highest, head) ==
    IF highest # NoBlock
    THEN IF highest < head
         THEN [kind |-> "Some", block |-> highest + 1]
         ELSE [kind |-> "None", block |-> NoBlock]
    ELSE [kind |-> "Some", block |-> GENESIS]

next_missing(storage, head, fault) ==
    LET r == IF fault = "connection"
             THEN DatabaseOrComputeError("Creating database connection")
             ELSE IF fault = "transaction"
             THEN DatabaseOrComputeError("Creating database transaction")
             ELSE IF fault = "query"
             THEN DatabaseOrComputeError("Querying highest block with state update")
             ELSE LET v == next_missing_value(highest_block_with_state_update(storage), head)
                  IN [NoRet EXCEPT !.kind = v.kind, !.block = v.block]
    IN [r EXCEPT !.op = "next_missing", !.head = head, !.fault = fault]

(***************************************************************************)
(* The state machine.                                                      *)
(***************************************************************************)
\* No call of _update_and_verify_state_trie is in progress.
NoCall ==
    [pc |-> "idle", queue |-> <<>>, verify_hashes |-> FALSE,
     x |-> PeerData(NoPeer, NoBlock, EmptyContractUpdates), header |-> NoHeader,
     tree0 |-> EmptyTree, tree |-> EmptyTree, tree_verify_hashes |-> FALSE,
     group |-> "none",
     workers |-> <<>>, chan |-> <<>>, sent |-> 0,
     results |-> <<>>, regular_results |-> <<>>, next |-> 1,
     log |-> <<>>, processed |-> <<>>, out |-> <<>>,
     outcome |-> NoRet, returned |-> "none", input |-> <<>>, runs |-> <<>>]

\* No call of permute is in progress.
NoPos == [pc |-> "idle", state |-> <<0, 0, 0>>, idx |-> 0, i |-> 0, trace |-> <<>>, reads |-> <<>>]

\* A database left by earlier runs of the node: the blocks up to h were
\* applied with empty state diffs, so their commitment is the root of the
\* empty tree (written through insert_block_header, insert_state_update
\* and commit).  h = NoBlock is the fresh database.
SyncedDb(h) ==
    [EmptyDb EXCEPT
       !.headers = [b \in Blocks |->
                      IF b <= h
                      THEN [present |-> TRUE, hash |-> BlockHashOf(b),
                            storage_commitment |-> RootHash(EmptyTree)]
                      ELSE NoHeader],
       !.state_updates = [b \in Blocks |->
                            IF b <= h
                            THEN [present |-> TRUE, block_hash |-> BlockHashOf(b),
                                  contract_updates |-> <<>>,
                                  system_contract_updates |-> <<>>]
                            ELSE NoStateUpdate]]

Init ==
    /\ \E h \in {NoBlock} \cup Blocks : db = SyncedDb(h)
    /\ ret = NoRet
    /\ call = NoCall
    /\ pos = NoPos

\* Calls are made one after the other: a call starts when the caller has
\* taken the value the previous call returned.
Idle == ret = NoRet

Return ==
    /\ ~Idle
    /\ ret' = NoRet
    /\ UNCHANGED <<db, call, pos>>

\* The header layer stores the header of a block (insert_block_header, commit).
StoreHeader(b, c) ==
    /\ Idle
    /\ ~db.headers[b].present
    /\ db' = commit(insert_block_header(db, b,
                 [present |-> TRUE, hash |-> BlockHashOf(b), storage_commitment |-> c]))
    /\ UNCHANGED <<ret, call, pos>>

\* A fault is drawn only where the call it names is reached.
VerifyFaultApplies(x, fault) ==
    \/ fault \in {"none", "connection", "transaction", "header_query"}
    \/ /\ db.headers[x.block_number].present
       /\ \/ fault = "load" /\ x.block_number # 0
          \/ fault \in {"regular_connection", "regular_transaction",
                        "regular_update", "regular_set"}
             /\ DOMAIN x.contract_updates.regular # {}
          \/ fault \in {"system_connection", "system_transaction",
                        "system_update", "system_set"}
             /\ DOMAIN x.contract_updates.system # {}
          \/ fault = "commit"

VerifyOne(x, verify_hashes, fault) ==
    /\ Idle
    /\ VerifyFaultApplies(x, fault)
    /\ \E r \in {verify_one(db, x, verify_hashes, fault)} :
          /\ db' = r.storage
          /\ ret' = r.ret
    /\ UNCHANGED <<call, pos>>

\* The batches persist is called with.
BatchContractUpdates ==
    {cu \in ContractUpdates : cu.system = <<>> /\ DOMAIN cu.regular \subseteq {MaxContract}}

BatchItems ==
    {PeerData(1, b, cu) : b \in Blocks, cu \in BatchContractUpdates}

Batches == UNION {[1..n -> BatchItems] : n \in 0..MaxBatch}

Persist(contract_updates, fault) ==
    /\ Idle
    /\ \E r \in {persist(db, contract_updates, fault)} :
          /\ db' = r.storage
          /\ ret' = r.ret
    /\ UNCHANGED <<call, pos>>

\* The pipeline: the block verify_one has just accepted is handed to persist.
PersistVerified(fault) ==
    /\ ret.op = "verify_one" /\ ret.kind = "Ok"
    /\ \E r \in {persist(db, <<PeerData(ret.in_peer, ret.ok.block_number,
                                        ret.ok.contract_updates)>>, fault)} :
          /\ db' = r.storage
          /\ ret' = [r.ret EXCEPT !.after_ok = TRUE, !.ok = ret.ok]
    /\ UNCHANGED <<call, pos>>

Heads == 0..(MaxBlock + 1)

NextMissing(head, fault) ==
    /\ Idle
    /\ ret' = next_missing(db, head, fault)
    /\ UNCHANGED <<db, call, pos>>

StoreHeaderStep == \E b \in Blocks, c \in Felts : StoreHeader(b, c)

VerifyOneStep ==
    \E p \in Peers, b \in Blocks, cu \in ContractUpdates,
       vh \in BOOLEAN, f \in VerifyFaults :
        VerifyOne(PeerData(p, b, cu), vh, f)

PersistStep == \E batch \in Batches, f \in PersistFaults : Persist(batch, f)

PersistVerifiedStep == \E f \in PersistFaults : PersistVerified(f)

NextMissingStep == \E head \in Heads, f \in NextMissingFaults : NextMissing(head, f)

Next ==
    \/ StoreHeaderStep
    \/ VerifyOneStep
    \/ PersistStep
    \/ PersistVerifiedStep
    \/ NextMissingStep
    \/ Return

Spec == Init /\ [][Next]_vars

(***************************************************************************)
(* persist (state_updates.rs:57-99) with its calls recorded: `ret.batch`   *)
(* lists the block numbers of the batch and `ret.inserts` the block        *)
(* numbers given to insert_state_update, both in order.                    *)
(***************************************************************************)
PersistCall(contract_updates, fault) ==
    /\ Idle
    /\ \E run \in {persist_run(db, contract_updates, fault)} :
          /\ db' = persist_storage(db, run.tx, run.ret.kind)
          /\ ret' = [op |-> "persist", kind |-> run.ret.kind, msg |-> run.ret.msg,
                     block |-> run.ret.block, fault |-> fault.kind,
                     batch |-> [i \in 1..Len(contract_updates) |->
                                  contract_updates[i].block_number],
                     inserts |-> run.calls]
    /\ UNCHANGED <<call, pos>>

PersistCallStep ==
    /\ Idle
    /\ \E batch \in Batches, f \in PersistFaults : PersistCall(batch, f)

PersistNext ==
    \/ StoreHeaderStep
    \/ PersistCallStep
    \/ Return

PersistSpec == Init /\ [][PersistNext]_vars

(***************************************************************************)
(* verify_one on updates that carry a nonce and a class as well:           *)
(* `ret.in_updates` records the ContractUpdates of the call.               *)
(***************************************************************************)
FullUpdates == {u \in Updates : DOMAIN u.storage # {}}

FullContractUpdates ==
    [regular : PartialMaps({MaxContract}, FullUpdates),
     system : PartialMaps(SystemContracts, FullUpdates)]

VerifyOneFull(x, verify_hashes) ==
    /\ Idle
    /\ \E r \in {verify_one(db, x, verify_hashes, "none")} :
          /\ db' = r.storage
          /\ ret' = r.ret @@ ("in_updates" :> x.contract_updates)
    /\ UNCHANGED <<call, pos>>

VerifyOneFullStep ==
    /\ Idle
    /\ \E p \in Peers, b \in Blocks, cu \in FullContractUpdates, vh \in BOOLEAN :
          VerifyOneFull(PeerData(p, b, cu), vh)

FullNext ==
    \/ StoreHeaderStep
    \/ VerifyOneFullStep
    \/ Return

FullSpec == Init /\ [][FullNext]_vars

(***************************************************************************)
(* _update_and_verify_state_trie (state_updates.rs:112-125) step by step.  *)
(* It maps verify_one over the batch, one item after the other, and        *)
(* collects into a Result, which stops at the first Err.  Inside           *)
(* verify_one the thread that runs it (the main thread) waits in           *)
(* rayon::scope for a spawned task that runs the workers of one group in   *)
(* parallel, collects their results and sends them in one channel message. *)
(* `call.workers` holds the state of each worker of the current group and  *)
(* `call.log` the events of the current verify_one run, in order.          *)
(***************************************************************************)
MaxConn == 2

Conns == 1..MaxConn

Waiting == [st |-> "waiting", conn |-> 0, verify_hashes |-> FALSE, result |-> <<>>]

Event(ev, by, group, addr) == [ev |-> ev, by |-> by, group |-> group, addr |-> addr]

\* The orders in which a HashMap may hand out its entries.
Orders(S) ==
    {o \in [1..Cardinality(S) -> S] : \A i, j \in 1..Cardinality(S) : o[i] = o[j] => i = j}

GroupUpdates(r, group) ==
    IF group = "regular" THEN r.x.contract_updates.regular ELSE r.x.contract_updates.system

\* The value verify_one returns, with the arguments of the run.
Outcome(x, result, fault) ==
    [result EXCEPT !.op = "verify_one", !.in_block = x.block_number,
                   !.in_peer = x.peer, !.fault = fault]

\* verify_one_return with the errors filtered out of the collected Vec.
verify_one_return_skip_err(r, outcome) ==
    [r EXCEPT !.pc = IF r.queue = <<>> THEN "returned" ELSE "next",
              !.out = IF outcome.kind = "Ok" THEN Append(@, outcome) ELSE @,
              !.outcome = outcome, !.runs = Append(@, outcome),
              !.returned = IF r.queue = <<>> THEN "Ok" ELSE "none"]

\* Lines 118-121: the value joins the collected Vec, or, an Err, ends the
\* call and the Vec collected so far is dropped.  The call returns
\* Ok(out) or Err(outcome); `runs` lists the value of every verify_one run.
verify_one_return(r, outcome) ==
    IF outcome.kind = "Ok"
    THEN [r EXCEPT !.pc = IF r.queue = <<>> THEN "returned" ELSE "next",
                   !.out = Append(@, outcome), !.outcome = outcome,
                   !.runs = Append(@, outcome),
                   !.returned = IF r.queue = <<>> THEN "Ok" ELSE "none"]
    ELSE [r EXCEPT !.pc = "returned", !.out = <<>>, !.outcome = outcome,
                   !.runs = Append(@, outcome), !.returned = "Err"]

\* Lines 160-164 and 206-210: a new channel, and the task that runs the
\* group's workers is spawned.
group_begin(r, group) ==
    [r EXCEPT !.pc = "workers", !.group = group,
              !.workers = [a \in DOMAIN GroupUpdates(r, group) |-> Waiting],
              !.chan = <<>>, !.sent = 0, !.results = <<>>, !.next = 1]

\* Lines 134-158: the next item of the batch; header and tree are read
\* through the transaction of the main thread.
verify_one_begin(storage, r) ==
    LET x == Head(r.queue)
        r1 == [r EXCEPT !.queue = Tail(@), !.x = x, !.log = <<>>,
                        !.processed = Append(@, x.block_number),
                        !.regular_results = <<>>, !.outcome = NoRet]
        tree0 == IF x.block_number # 0
                 THEN StorageCommitmentTree_load(storage, Parent(x.block_number))
                 ELSE EmptyTree
    IN IF ~block_header(storage, x.block_number).present
       THEN verify_one_return(r1, Outcome(x, DatabaseOrComputeError("Block header not found"),
                                          "none"))
       ELSE group_begin([r1 EXCEPT !.header = block_header(storage, x.block_number),
                                   !.tree0 = tree0, !.tree = tree0,
                                   !.tree_verify_hashes = r.verify_hashes], "regular")

\* The connections no running worker holds.
FreeConns(r) ==
    {c \in Conns : \A a \in DOMAIN r.workers :
                      r.workers[a].st = "running" => r.workers[a].conn # c}

\* worker_connection with one connection shared by all the workers.
worker_connection_shared(r) == 1

\* Lines 168-177: map_init gives a worker the connection of its rayon job,
\* which runs one item at a time.
worker_connection(r) == CHOOSE c \in FreeConns(r) : \A d \in FreeConns(r) : c <= d

\* Lines 170-178: the worker takes its connection and opens its transaction.
worker_start(r, a) ==
    [r EXCEPT !.workers[a] = [st |-> "running", conn |-> worker_connection(r),
                              verify_hashes |-> r.verify_hashes, result |-> <<>>],
              !.log = Append(@, Event("start", "worker", r.group, a))]

\* Lines 179-187 and 225-233: update_contract_state through the worker's
\* transaction; system workers pass None for nonce and class.
worker_update(storage, r, a) ==
    update_contract_state(
        a, GroupUpdates(r, r.group)[a].storage,
        worker_nonce(r.group, GroupUpdates(r, r.group)[a]),
        worker_class(r.group, GroupUpdates(r, r.group)[a]),
        storage, r.x.block_number)

\* worker_finish with the worker setting its result on the global tree itself.
worker_finish_sets_tree(storage, r, a, ok) ==
    IF ok
    THEN Bind(worker_update(storage, r, a), LAMBDA res :
           [r EXCEPT !.workers[a] = [@ EXCEPT !.st = "done", !.result = res],
                     !.tree = TreeSet(@, res.contract_address, res.state_hash),
                     !.log = @ \o <<Event("commit", "worker", r.group, a),
                                    Event("set", "worker", r.group, a)>>])
    ELSE [r EXCEPT !.workers[a] = [@ EXCEPT !.st = "failed"]]

\* The worker's closure returns: the contract's trie was committed in
\* memory (Ok) or the worker failed (Err).
worker_finish(storage, r, a, ok) ==
    IF ok
    THEN [r EXCEPT !.workers[a] = [@ EXCEPT !.st = "done",
                                            !.result = worker_update(storage, r, a)],
                   !.log = Append(@, Event("commit", "worker", r.group, a))]
    ELSE [r EXCEPT !.workers[a] = [@ EXCEPT !.st = "failed"]]

\* What a worker leaves in the database: its transaction is dropped when
\* the closure returns (line 178, 188).
worker_storage(storage, r, a) == storage

\* The workers of the group are over: all finished, or one failed and the
\* ones not yet started are skipped.
GroupOver(r) ==
    /\ \A a \in DOMAIN r.workers : r.workers[a].st # "running"
    /\ \/ \A a \in DOMAIN r.workers : r.workers[a].st = "done"
       \/ \E a \in DOMAIN r.workers : r.workers[a].st = "failed"

\* group_collect keeping only the first result.
group_collect_first_only(r, order) ==
    [r EXCEPT !.pc = "recv", !.sent = @ + 1,
              !.chan = Append(@,
                  IF \E a \in DOMAIN r.workers : r.workers[a].st = "failed"
                  THEN [ok |-> FALSE, results |-> <<>>]
                  ELSE [ok |-> TRUE,
                        results |-> IF Len(order) = 0 THEN <<>>
                                    ELSE <<r.workers[order[1]].result>>]),
              !.log = Append(@, Event("send", "task", r.group, 0))]

\* Lines 165-191 and 211-238: collect() into Result<Vec<_>, _>, in the
\* order of the map's iterator, and one send on the channel.
group_collect(r, order) ==
    [r EXCEPT !.pc = "recv", !.sent = @ + 1,
              !.chan = Append(@,
                  IF \E a \in DOMAIN r.workers : r.workers[a].st = "failed"
                  THEN [ok |-> FALSE, results |-> <<>>]
                  ELSE [ok |-> TRUE,
                        results |-> [i \in 1..Len(order) |-> r.workers[order[i]].result]]),
              !.log = Append(@, Event("send", "task", r.group, 0))]

\* main_recv starting the system group before the regular results are set.
main_recv_defer_sets(r) ==
    IF ~Head(r.chan).ok
    THEN verify_one_return([r EXCEPT !.chan = Tail(@)],
                           Outcome(r.x, DatabaseOrComputeError("update_contract_state"),
                                   r.group \o "_update"))
    ELSE IF r.group = "regular"
    THEN group_begin([r EXCEPT !.chan = Tail(@), !.regular_results = Head(r.chan).results],
                     "system")
    ELSE [r EXCEPT !.chan = Tail(@), !.results = Head(r.chan).results,
                   !.next = 1, !.pc = "set"]

\* Lines 195 and 242: recv()??, an Err ends verify_one.
main_recv(r) ==
    IF ~Head(r.chan).ok
    THEN verify_one_return([r EXCEPT !.chan = Tail(@)],
                           Outcome(r.x, DatabaseOrComputeError("update_contract_state"),
                                   r.group \o "_update"))
    ELSE [r EXCEPT !.chan = Tail(@), !.results = Head(r.chan).results,
                   !.next = 1, !.pc = "set"]

\* Lines 197-204 and 244-251: one iteration of the loop of sets.
main_set(r) ==
    [r EXCEPT !.tree = TreeSet(@, r.results[r.next].contract_address,
                               r.results[r.next].state_hash),
              !.next = @ + 1,
              !.log = Append(@, Event("set", "main", r.group,
                                      r.results[r.next].contract_address))]

\* The loop of sets is over: the system group follows the regular group
\* (line 206), the commit follows the system group (line 253).
main_group_done(r) ==
    IF r.group = "regular"
    THEN group_begin([r EXCEPT !.regular_results = r.results], "system")
    ELSE [r EXCEPT !.pc = "commit"]

\* main_commit with the system results put before the regular results.
main_commit_system_first(r) ==
    Bind(TreeCommit(r.tree0, r.tree), LAMBDA committed :
      verify_one_return(r,
        Outcome(r.x,
                CommitmentCheck(r.x.peer, r.x.block_number, r.header,
                                committed.root, committed.nodes,
                                r.results \o r.regular_results, r.x.contract_updates),
                "none")))

\* Lines 254-276: commit, the commitment check and the value returned.
main_commit(r) ==
    Bind(TreeCommit(r.tree0, r.tree), LAMBDA committed :
      verify_one_return(r,
        Outcome(r.x,
                CommitmentCheck(r.x.peer, r.x.block_number, r.header,
                                committed.root, committed.nodes,
                                r.regular_results \o r.results, r.x.contract_updates),
                "none")))

\* The batches of the step-by-step calls: one item with any updates,
\* several items without updates, or an item with system updates followed
\* by an item without updates.
CallItems == {PeerData(1, b, cu) : b \in Blocks, cu \in ContractUpdates}

PlainItems == {PeerData(1, b, EmptyContractUpdates) : b \in Blocks}

SystemItems == {x \in CallItems : DOMAIN x.contract_updates.regular = {}}

CallBatches ==
    {<<x>> : x \in CallItems}
        \cup UNION {[1..n -> PlainItems] : n \in 2..MaxBatch}
        \cup {<<x, y>> : x \in SystemItems, y \in PlainItems}

\* A database in which the header layer has stored every header of a chain
\* and no state update is stored yet: the genesis block of the chain
\* carries the state diff `genesis` and the later blocks carry no update,
\* so every header states the commitment of the genesis block.
HeaderDb(genesis) ==
    LET any == [present |-> TRUE, hash |-> BlockHashOf(GENESIS), storage_commitment |-> 0]
        c0 == verify_one(insert_block_header(EmptyDb, GENESIS, any),
                         PeerData(1, GENESIS, genesis), FALSE, "none").ret.computed
    IN [EmptyDb EXCEPT
          !.headers = [b \in Blocks |->
                         [present |-> TRUE, hash |-> BlockHashOf(b),
                          storage_commitment |-> c0]]]

CallInit ==
    /\ \/ \E h \in {NoBlock} \cup Blocks : db = SyncedDb(h)
       \/ \E genesis \in ContractUpdates : db = HeaderDb(genesis)
    /\ ret = NoRet
    /\ call = NoCall
    /\ pos = NoPos

CallStart(contract_updates, verify_trie_hashes) ==
    /\ call.pc = "idle"
    /\ call' = [NoCall EXCEPT !.pc = "next", !.queue = contract_updates,
                              !.input = contract_updates,
                              !.verify_hashes = verify_trie_hashes]
    /\ UNCHANGED <<db, ret, pos>>

VerifyBegin ==
    /\ call.pc = "next"
    /\ call' = verify_one_begin(db, call)
    /\ UNCHANGED <<db, ret, pos>>

WorkerStart(a) ==
    /\ call.pc = "workers"
    /\ call.workers[a].st = "waiting"
    /\ \A b \in DOMAIN call.workers : call.workers[b].st # "failed"
    /\ FreeConns(call) # {}
    /\ call' = worker_start(call, a)
    /\ UNCHANGED <<db, ret, pos>>

WorkerFinish(a, ok) ==
    /\ call.pc = "workers"
    /\ call.workers[a].st = "running"
    /\ call' = worker_finish(db, call, a, ok)
    /\ db' = worker_storage(db, call, a)
    /\ UNCHANGED <<ret, pos>>

GroupCollect(order) ==
    /\ call.pc = "workers"
    /\ GroupOver(call)
    /\ call' = group_collect(call, order)
    /\ UNCHANGED <<db, ret, pos>>

MainRecv ==
    /\ call.pc = "recv"
    /\ call.chan # <<>>
    /\ call' = main_recv(call)
    /\ UNCHANGED <<db, ret, pos>>

MainSet ==
    /\ call.pc = "set"
    /\ call.next <= Len(call.results)
    /\ call' = main_set(call)
    /\ UNCHANGED <<db, ret, pos>>

MainGroupDone ==
    /\ call.pc = "set"
    /\ call.next > Len(call.results)
    /\ call' = main_group_done(call)
    /\ UNCHANGED <<db, ret, pos>>

MainCommit ==
    /\ call.pc = "commit"
    /\ call' = main_commit(call)
    /\ UNCHANGED <<db, ret, pos>>

CallStartStep == \E batch \in CallBatches, vh \in BOOLEAN : CallStart(batch, vh)

WorkerStartStep == \E a \in DOMAIN call.workers : WorkerStart(a)

WorkerFinishStep == \E a \in DOMAIN call.workers, ok \in BOOLEAN : WorkerFinish(a, ok)

GroupCollectStep == \E order \in Orders(DOMAIN call.workers) : GroupCollect(order)

CallNext ==
    \/ CallStartStep
    \/ VerifyBegin
    \/ WorkerStartStep
    \/ WorkerFinishStep
    \/ GroupCollectStep
    \/ MainRecv
    \/ MainSet
    \/ MainGroupDone
    \/ MainCommit

CallSpec == CallInit /\ [][CallNext]_vars

(***************************************************************************)
(* The Poseidon permutation (crypto/src/hash/poseidon/permutation.rs).     *)
(* The field (algebra::field::MontFelt) and the table of round constants   *)
(* (hash::poseidon::consts) are not among the sources: the field is the    *)
(* integers modulo PoseidonP and the table an arbitrary one.  Lane k of    *)
(* the code is position k + 1 of the state.  `pos.trace` lists the rounds  *)
(* applied so far, each with the state handed to mix and the state mix    *)
(* left, and `pos.reads` the table indices read, in order.                 *)
(***************************************************************************)
PoseidonP == 5
MaxLane == 1

FULL_ROUNDS == 8
PARTIAL_ROUNDS == 83

Lanes == 0..MaxLane

POSEIDON_COMP_CONSTS(i) == (i * i + 3 * i + 1) % PoseidonP

FAdd(a, b) == (a + b) % PoseidonP

FSub(a, b) == (a - b + PoseidonP) % PoseidonP

FMul(a, b) == (a * b) % PoseidonP

FDouble(a) == FAdd(a, a)

FSquare(a) == FMul(a, a)

\* mix with t taken after lane 0 has been overwritten.
mix_late_t(state) ==
    LET s0 == FAdd(FAdd(FAdd(state[1], state[2]), state[3]), FDouble(state[1]))
        t == FAdd(FAdd(s0, state[2]), state[3])
    IN <<s0,
         FSub(t, FDouble(state[2])),
         FSub(t, FAdd(FDouble(state[3]), state[3]))>>

\* Lines 15-20.
mix(state) ==
    LET t == FAdd(FAdd(state[1], state[2]), state[3])
    IN <<FAdd(t, FDouble(state[1])),
         FSub(t, FDouble(state[2])),
         FSub(t, FAdd(FDouble(state[3]), state[3]))>>

\* Lines 30-35: the state full_round hands to mix.
full_round_sbox(state, idx) ==
    LET s0 == FAdd(state[1], POSEIDON_COMP_CONSTS(idx))
        s1 == FAdd(state[2], POSEIDON_COMP_CONSTS(idx + 1))
        s2 == FAdd(state[3], POSEIDON_COMP_CONSTS(idx + 2))
    IN <<FMul(FSquare(s0), s0), FMul(FSquare(s1), s1), FMul(FSquare(s2), s2)>>

\* Lines 29-37.
full_round(state, idx) == mix(full_round_sbox(state, idx))

\* partial_round working on lane 0 instead of lane 2.
partial_round_lane0(state, idx) ==
    LET s0 == FAdd(state[1], POSEIDON_COMP_CONSTS(idx))
    IN mix(<<FMul(FSquare(s0), s0), state[2], state[3]>>)

\* Lines 44-45: the state partial_round hands to mix.
partial_round_sbox(state, idx) ==
    LET s2 == FAdd(state[3], POSEIDON_COMP_CONSTS(idx))
    IN <<state[1], state[2], FMul(FSquare(s2), s2)>>

\* Lines 43-47.
partial_round(state, idx) == mix(partial_round_sbox(state, idx))

\* full_loop_over with FULL_ROUNDS iterations in each loop of full rounds.
full_loop_over_all(i) == i >= FULL_ROUNDS

\* Lines 56 and 68: for _ in 0..(FULL_ROUNDS / 2).
full_loop_over(i) == i >= FULL_ROUNDS \div 2

\* Line 62: for _ in 0..PARTIAL_ROUNDS.
partial_loop_over(i) == i >= PARTIAL_ROUNDS

\* One iteration of a loop of full rounds (lines 56-59, 68-71); `after` is
\* what follows the loop.
full_iteration(p, after) ==
    [p EXCEPT !.state = full_round(p.state, p.idx),
              !.idx = @ + 3,
              !.i = IF full_loop_over(p.i + 1) THEN 0 ELSE p.i + 1,
              !.pc = IF full_loop_over(p.i + 1) THEN after ELSE p.pc,
              !.trace = Append(@, [kind |-> "full", idx |-> p.idx, pc |-> p.pc,
                                    mix_in |-> full_round_sbox(p.state, p.idx),
                                    mix_out |-> full_round(p.state, p.idx)]),
              !.reads = @ \o <<p.idx, p.idx + 1, p.idx + 2>>]

\* One iteration of the loop of partial rounds (lines 62-65).
partial_iteration(p) ==
    [p EXCEPT !.state = partial_round(p.state, p.idx),
              !.idx = @ + 1,
              !.i = IF partial_loop_over(p.i + 1) THEN 0 ELSE p.i + 1,
              !.pc = IF partial_loop_over(p.i + 1) THEN "full_last" ELSE p.pc,
              !.trace = Append(@, [kind |-> "partial", idx |-> p.idx, pc |-> p.pc,
                                    mix_in |-> partial_round_sbox(p.state, p.idx),
                                    mix_out |-> partial_round(p.state, p.idx)]),
              !.reads = Append(@, p.idx)]

\* permute(&mut state): line 53.
PermuteStart(state) ==
    /\ pos.pc = "idle"
    /\ pos' = [NoPos EXCEPT !.pc = "full_first", !.state = state]
    /\ UNCHANGED <<db, ret, call>>

FirstFullRound ==
    /\ pos.pc = "full_first"
    /\ pos' = full_iteration(pos, "partial")
    /\ UNCHANGED <<db, ret, call>>

PartialRound ==
    /\ pos.pc = "partial"
    /\ pos' = partial_iteration(pos)
    /\ UNCHANGED <<db, ret, call>>

LastFullRound ==
    /\ pos.pc = "full_last"
    /\ pos' = full_iteration(pos, "done")
    /\ UNCHANGED <<db, ret, call>>

PermuteStartStep == \E state \in [1..3 -> Lanes] : PermuteStart(state)

PoseidonInit ==
    /\ db = EmptyDb
    /\ ret = NoRet
    /\ call = NoCall
    /\ pos = NoPos

PoseidonNext ==
    \/ PermuteStartStep
    \/ FirstFullRound
    \/ PartialRound
    \/ LastFullRound

PoseidonSpec == PoseidonInit /\ [][PoseidonNext]_vars

(***************************************************************************)
(* The replies of the JSON-RPC layer (pathfinder/src/rpc/types.rs):        *)
(* reply::Block::from_scoped and the conversions it uses.  The sequencer's *)
(* reply types (crate::sequencer::reply) are not among the sources; a      *)
(* sequencer block, transaction and receipt carry the fields the           *)
(* conversions read.  NoFelt stands for None, Option<Vec<_>> and           *)
(* Option<message> are records with a `some` flag.  `ret` holds the call   *)
(* and the reply.                                                          *)
(***************************************************************************)
MaxTxs == 2

\* sequencer::reply::Status: the variants the matches at lines 165-175 and
\* 562-572 list.
SeqStatuses ==
    {"AcceptedOnL1", "AcceptedOnL2", "NotReceived", "Pending", "Received",
     "Rejected", "Reverted", "Aborted"}

BlockStatuses == {"Pending", "Proven", "AcceptedOnL2", "AcceptedOnL1", "Rejected"}

TransactionStatuses ==
    {"Unknown", "Received", "Pending", "AcceptedOnL2", "AcceptedOnL1", "Rejected"}

BlockResponseScopes ==
    {"TransactionHashes", "FullTransactions", "FullTransactionsAndReceipts"}

\* BlockStatus_from with Received mapped to Rejected.
BlockStatus_from_received_rejected(status) ==
    CASE status = "AcceptedOnL1" -> "AcceptedOnL1"
      [] status = "AcceptedOnL2" -> "AcceptedOnL2"
      [] status = "Pending" -> "Pending"
      [] status \in {"NotReceived", "Received", "Rejected", "Reverted", "Aborted"} -> "Rejected"

\* impl From<SeqStatus> for BlockStatus.
BlockStatus_from(status) ==
    CASE status = "AcceptedOnL1" -> "AcceptedOnL1"
      [] status = "AcceptedOnL2" -> "AcceptedOnL2"
      [] status = "NotReceived" -> "Rejected"
      [] status = "Pending" -> "Pending"
      [] status = "Received" -> "Pending"
      [] status = "Rejected" -> "Rejected"
      [] status = "Reverted" -> "Rejected"
      [] status = "Aborted" -> "Rejected"

\* impl From<seq::Status> for TransactionStatus.
TransactionStatus_from(status) ==
    CASE status = "AcceptedOnL1" -> "AcceptedOnL1"
      [] status = "AcceptedOnL2" -> "AcceptedOnL2"
      [] status = "NotReceived" -> "Unknown"
      [] status = "Pending" -> "Pending"
      [] status = "Received" -> "Received"
      [] status = "Rejected" -> "Rejected"
      [] status = "Reverted" -> "Unknown"
      [] status = "Aborted" -> "Unknown"

\* StarkHash::from_be_bytes(x).unwrap_or_default(): a value that is not
\* below the field modulus is no StarkHash and becomes the default, zero.
StarkHashModulus == 3

StarkHash_or_default(x) == IF x < StarkHashModulus THEN x ELSE 0

MapSeq(f(_), xs) == [i \in 1..Len(xs) |-> f(xs[i])]

NoVec == [some |-> FALSE, value |-> <<>>]

NoMessage == [some |-> FALSE, from_address |-> 0, payload |-> <<>>]

\* The transactions and receipts of sequencer blocks: number 1 has every
\* optional field None, the others have them set.
SeqTransaction(h) ==
    [transaction_hash |-> h, contract_address |-> 10 + h,
     entry_point_selector |-> IF h = 1 THEN NoFelt ELSE 20 + h,
     calldata |-> IF h = 1 THEN NoVec ELSE [some |-> TRUE, value |-> <<h, h + 1>>]]

SeqReceipt(h) ==
    [transaction_hash |-> h,
     l2_to_l1_messages |-> IF h = 1 THEN <<>> ELSE <<[to_address |-> 30 + h, payload |-> <<h>>]>>,
     l1_to_l2_consumed_message |->
        IF h = 1 THEN NoMessage
        ELSE [some |-> TRUE, from_address |-> 40 + h, payload |-> <<h, h>>]]

SeqTransactions == {SeqTransaction(h) : h \in 1..MaxTxs}

SeqReceipts == {SeqReceipt(h) : h \in 1..MaxTxs}

SeqsUpTo(S, n) == UNION {[1..k -> S] : k \in 0..n}

\* seq::Block: a pending block has no hash, number or state root yet.
SeqBlock(pending, status, transactions, transaction_receipts) ==
    [block_hash |-> IF pending THEN NoFelt ELSE 51,
     parent_block_hash |-> 50,
     block_number |-> IF pending THEN NoFelt ELSE 1,
     state_root |-> IF pending THEN NoFelt ELSE 61,
     timestamp |-> 70,
     status |-> status,
     transactions |-> transactions,
     transaction_receipts |-> transaction_receipts]

SeqBlocks ==
    {SeqBlock(pending, status, transactions, transaction_receipts) :
        pending \in BOOLEAN, status \in SeqStatuses,
        transactions \in SeqsUpTo(SeqTransactions, MaxTxs),
        transaction_receipts \in SeqsUpTo(SeqReceipts, MaxTxs)}

\* impl From<seq::transaction::Transaction> for Transaction (lines 393-412).
Transaction_from(txn) ==
    [txn_hash |-> txn.transaction_hash,
     contract_address |-> txn.contract_address,
     entry_point_selector |-> OrZero(txn.entry_point_selector),
     calldata |-> IF txn.calldata.some
                  THEN MapSeq(StarkHash_or_default, txn.calldata.value)
                  ELSE <<>>]

\* impl From<&L2ToL1Message> for MessageToL1 (lines 469-483).
MessageToL1_from(msg) == [to_address |-> msg.to_address, payload |-> msg.payload]

\* impl From<L1ToL2Message> for MessageToL2 (lines 496-510).
MessageToL2_from(msg) == [from_address |-> msg.from_address, payload |-> msg.payload]

\* MessageToL2::default().
MessageToL2_default == [from_address |-> 0, payload |-> <<>>]

\* TransactionReceipt::with_status (lines 426-444).
TransactionReceipt_with_status(receipt, status) ==
    [txn_hash |-> receipt.transaction_hash,
     status |-> TransactionStatus_from(status),
     status_data |-> "",
     messages_sent |-> MapSeq(MessageToL1_from, receipt.l2_to_l1_messages),
     l1_origin_message |-> IF receipt.l1_to_l2_consumed_message.some
                           THEN MessageToL2_from(receipt.l1_to_l2_consumed_message)
                           ELSE MessageToL2_default,
     events |-> <<>>]

\* Iterator::zip: pairs until either side is exhausted.
Zip(xs, ys) == [i \in 1..(IF Len(xs) <= Len(ys) THEN Len(xs) ELSE Len(ys)) |-> <<xs[i], ys[i]>>]

\* Lines 236-251: the closure that joins a transaction and its receipt.
TransactionAndReceipt_of(pair, status) ==
    LET t == Transaction_from(pair[1])
        r == TransactionReceipt_with_status(pair[2], status)
    IN [txn_hash |-> t.txn_hash,
        contract_address |-> t.contract_address,
        entry_point_selector |-> t.entry_point_selector,
        calldata |-> t.calldata,
        status |-> r.status,
        status_data |-> r.status_data,
        messages_sent |-> r.messages_sent,
        l1_origin_message |-> r.l1_origin_message,
        events |-> r.events]

\* Lines 219-255: the transactions of the reply.
from_scoped_transactions(block, scope) ==
    CASE scope = "TransactionHashes" ->
           [variant |-> "HashesOnly",
            items |-> [i \in 1..Len(block.transactions) |->
                         block.transactions[i].transaction_hash]]
      [] scope = "FullTransactions" ->
           [variant |-> "Full", items |-> MapSeq(Transaction_from, block.transactions)]
      [] scope = "FullTransactionsAndReceipts" ->
           [variant |-> "FullWithReceipts",
            items |-> [i \in 1..Len(Zip(block.transactions, block.transaction_receipts)) |->
                         TransactionAndReceipt_of(
                             Zip(block.transactions, block.transaction_receipts)[i],
                             block.status)]]

\* Block::from_scoped (lines 206-257).
from_scoped(block, scope) ==
    [block_hash |-> OrZero(block.block_hash),
     parent_hash |-> block.parent_block_hash,
     block_number |-> OrZero(block.block_number),
     status |-> BlockStatus_from(block.status),
     sequencer |-> 0,
     new_root |-> OrZero(block.state_root),
     old_root |-> 0,
     accepted_time |-> block.timestamp,
     transactions |-> from_scoped_transactions(block, scope)]

FromScoped(block, scope) ==
    /\ Idle
    /\ ret' = [op |-> "from_scoped", block |-> block, scope |-> scope,
               reply |-> from_scoped(block, scope)]
    /\ UNCHANGED <<db, call, pos>>

\* BlockStatus::from(status), as in `status.into()`.
BlockStatusFrom(status) ==
    /\ Idle
    /\ ret' = [op |-> "BlockStatus::from", status |-> status,
               reply |-> BlockStatus_from(status)]
    /\ UNCHANGED <<db, call, pos>>

FromScopedStep ==
    /\ Idle
    /\ \E block \in SeqBlocks, scope \in BlockResponseScopes : FromScoped(block, scope)

BlockStatusFromStep == \E status \in SeqStatuses : BlockStatusFrom(status)

RpcInit ==
    /\ db = EmptyDb
    /\ ret = NoRet
    /\ call = NoCall
    /\ pos = NoPos

RpcNext ==
    \/ FromScopedStep
    \/ BlockStatusFromStep
    \/ Return

RpcSpec == RpcInit /\ [][RpcNext]_vars

(***************************************************************************)
(* The claims.                                                             *)
(***************************************************************************)
HasStateUpdate(tx, b) == b \in Blocks /\ tx.state_updates[b].present

ErrorKinds == {"DatabaseOrComputeError", "SignatureVerification",
               "StateDiffCommitmentMismatch"}

\* A step in which verify_one runs; a step in which persist runs.
VerifyOneRan == ret.op # "verify_one" /\ ret'.op = "verify_one"

PersistRan == ret.op # "persist" /\ ret'.op = "persist"

\* C1: for a block whose header is stored, when every fallible call of
\* verify_one succeeds (the workers included), so that the commitment of the
\* global tree is obtained, verify_one returns Ok exactly when that
\* commitment equals the header's storage_commitment, and otherwise returns
\* StateDiffCommitmentMismatch with the block number and the peer of the input.
C1_CommitmentDecides ==
    (ret.op = "verify_one" /\ ret.fault = "none" /\ db.headers[ret.in_block].present) =>
        /\ ret.computed # NoFelt
        /\ (ret.kind = "Ok") <=>
              (ret.computed = db.headers[ret.in_block].storage_commitment)
        /\ ret.kind # "Ok" =>
              /\ ret.kind = "StateDiffCommitmentMismatch"
              /\ ret.block = ret.in_block
              /\ ret.peer = ret.in_peer

\* A mismatch reported for a block delivered by the last peer.
C1_Witness ==
    /\ ret.op = "verify_one" /\ ret.fault = "none"
    /\ ret.kind = "StateDiffCommitmentMismatch"
    /\ ret.in_peer = MaxPeer /\ ret.in_block = MaxBlock

\* C2: after persist returns Ok(tail), every block of the batch has its
\* state-update row in the committed database, so the highest block with a
\* state update is at least tail.
C2_PersistCommitted ==
    (ret.op = "persist" /\ ret.kind = "Ok") =>
        /\ \A b \in ret.batch_blocks : HasStateUpdate(db, b)
        /\ highest_block_with_state_update(db) >= ret.block

\* C3: after verify_one accepted a block and persist returned Ok for it,
\* for every contract the block updates the worker's new nodes are in the
\* contract trie node table, contract_root(block, contract) is non-null and
\* storage_value returns the values the block set.
C3_TrieResultsStored ==
    (ret.op = "persist" /\ ret.kind = "Ok" /\ ret.after_ok) =>
        \A i \in 1..Len(ret.ok.contract_update_results) :
            LET r == ret.ok.contract_update_results[i]
                b == ret.ok.block_number
                cu == ret.ok.contract_updates
                storage == IF r.contract_address \in DOMAIN cu.regular
                           THEN cu.regular[r.contract_address].storage
                           ELSE cu.system[r.contract_address].storage
            IN /\ r.nodes \subseteq db.contract_trie_nodes
               /\ contract_root(db, b, r.contract_address).present
               /\ \A k \in DOMAIN storage :
                     storage_value(db, b, r.contract_address, k) = storage[k]

\* C4: a verify_one that returns StateDiffCommitmentMismatch leaves the
\* database as it was: no trie node, root pointer or state-update row is written.
C4_MismatchWritesNothing ==
    [][(VerifyOneRan /\ ret'.kind = "StateDiffCommitmentMismatch") => db' = db]_vars

\* A mismatch found after trie work on a non-empty tree.
C4_Witness ==
    /\ ret.op = "verify_one" /\ ret.kind = "StateDiffCommitmentMismatch"
    /\ ret.computed # RootHash(EmptyTree)

\* C5: when a worker of either group fails (connection, transaction or
\* update_contract_state), verify_one returns an error, no VerificationOk,
\* and the database is as it was.
C5_WorkerFailureAborts ==
    [][(VerifyOneRan /\ ret'.fault \in WorkerFaults) =>
          /\ ret'.kind \in ErrorKinds
          /\ ret'.ok = NoVerificationOk
          /\ db' = db]_vars

\* A system worker failed after the regular workers had succeeded.
C5_Witness ==
    /\ ret.op = "verify_one" /\ ret.fault = "system_update"
    /\ ret.msg = "update_contract_state"

\* C6: a persist that fails leaves the database as it was: no state-update
\* row of the batch is visible, the rows inserted before the failure included.
C6_PersistAllOrNothing ==
    [][(PersistRan /\ ret'.kind # "Ok") =>
          /\ db' = db
          /\ \A b \in ret'.batch_blocks :
                HasStateUpdate(db', b) => HasStateUpdate(db, b)]_vars

\* persist failed after it had inserted a row for an earlier block of the batch.
C6_Witness ==
    /\ ret.op = "persist" /\ ret.kind = "DatabaseOrComputeError"
    /\ ret.tx_blocks # {}
    /\ \E b \in ret.tx_blocks : ~HasStateUpdate(db, b)

C8_NextMissingValue ==
    (ret.op = "next_missing" /\ ret.fault = "none") =>
        LET highest == highest_block_with_state_update(db)
        IN IF highest = NoBlock
           THEN ret.kind = "Some" /\ ret.block = GENESIS
           ELSE IF highest < ret.head
           THEN ret.kind = "Some" /\ ret.block = Min(highest + 1, ret.head)
           ELSE ret.kind = "None"

\* next_missing called with the head equal to the highest stored block.
C8_Witness ==
    /\ ret.op = "next_missing" /\ ret.fault = "none"
    /\ highest_block_with_state_update(db) # NoBlock
    /\ highest_block_with_state_update(db) = ret.head

C10_ReplayRejected ==
    (/\ ret.op = "verify_one" /\ ret.fault = "none"
     /\ ret.in_block <= highest_block_with_state_update(db)) =>
        /\ ret.kind \in ErrorKinds
        /\ ret.computed = NoFelt

\* The positions of the log that hold an event `ev` of `group`.
LogAt(ev, group) ==
    {i \in 1..Len(call.log) : call.log[i].ev = ev /\ call.log[i].group = group}

\* A verify_one run of the step-by-step call has returned Ok or a mismatch.
RunDecided ==
    /\ call.outcome.op = "verify_one"
    /\ call.outcome.kind \in {"Ok", "StateDiffCommitmentMismatch"}

\* C11: within a call, the blocks whose verify_one has started form a
\* strictly ascending sequence (they are processed one at a time, in
\* ascending block_number).
C11_AscendingOneAtATime ==
    \A i, j \in 1..Len(call.processed) :
        i < j => call.processed[i] < call.processed[j]

\* C12: in a verify_one run, once a system worker has started or a system
\* contract has been set, every regular contract has been set, and each of
\* those sets precedes every start and every set of the system group.
C12_SystemAfterRegular ==
    (LogAt("start", "system") \cup LogAt("set", "system") # {}) =>
        /\ Cardinality(LogAt("set", "regular"))
              = Cardinality(DOMAIN call.x.contract_updates.regular)
        /\ \A i \in LogAt("set", "regular") :
              \A j \in LogAt("start", "system") \cup LogAt("set", "system") : i < j

\* Both groups had contracts, and the sets of both are done.
C12_Witness ==
    /\ call.pc = "commit"
    /\ LogAt("set", "regular") # {}
    /\ LogAt("set", "system") # {}

\* C13: in a verify_one run that reached the commitment check, the global
\* tree received exactly one set for every contract address of the input,
\* and each set follows the commit of that contract's own trie by its worker.
C13_SetOncePerContract ==
    RunDecided =>
        /\ \A a \in DOMAIN call.x.contract_updates.regular
                     \cup DOMAIN call.x.contract_updates.system :
              Cardinality({i \in 1..Len(call.log) :
                             call.log[i].ev = "set" /\ call.log[i].addr = a}) = 1
        /\ \A j \in 1..Len(call.log) :
              call.log[j].ev = "set" =>
                 \E i \in 1..(j - 1) :
                    /\ call.log[i].ev = "commit"
                    /\ call.log[i].group = call.log[j].group
                    /\ call.log[i].addr = call.log[j].addr

\* C14: the commitment a verify_one run computes, and with it accept or
\* mismatch, is the one the run with the workers in ascending address
\* order computes, whatever the schedule of the workers and the order of
\* their results.
C14_ScheduleIndependent ==
    RunDecided =>
        \E v \in {verify_one(db, call.x, call.verify_hashes, "none").ret} :
            /\ call.outcome.kind = v.kind
            /\ call.outcome.computed = v.computed

\* Two regular contracts were set in descending address order.
C14_Witness ==
    /\ RunDecided
    /\ \E i, j \in LogAt("set", "regular") :
          i < j /\ call.log[i].addr > call.log[j].addr

\* C15: every set on the global tree is made by the main thread; a group
\* sends one message on its channel; and when a contract of a group is set,
\* every worker of the group has finished.
C15_MainIsSoleWriter ==
    /\ \A i \in 1..Len(call.log) : call.log[i].ev = "set" => call.log[i].by = "main"
    /\ call.sent <= 1 /\ Len(call.chan) <= 1
    /\ \A j \in 1..Len(call.log) :
          call.log[j].ev = "set" =>
             /\ Cardinality({i \in 1..(j - 1) : call.log[i].ev = "send"
                                                /\ call.log[i].group = call.log[j].group}) = 1
             /\ \A a \in DOMAIN GroupUpdates(call, call.log[j].group) :
                   \E i \in 1..(j - 1) :
                      /\ call.log[i].ev = "commit"
                      /\ call.log[i].group = call.log[j].group
                      /\ call.log[i].addr = a

\* The second result of a group of two workers is being set.
C15_Witness ==
    /\ call.pc = "set"
    /\ call.next = 2
    /\ Cardinality(DOMAIN call.workers) >= 2

\* A step of a worker.
WorkerStep == WorkerStartStep \/ WorkerFinishStep

\* C16: no two workers that run at the same time use the same connection,
\* and no step of a worker changes the database.
C16_WorkersIsolated ==
    /\ [](\A a, b \in DOMAIN call.workers :
             (a # b /\ call.workers[a].st = "running" /\ call.workers[b].st = "running")
                => call.workers[a].conn # call.workers[b].conn)
    /\ [][WorkerStep => db' = db]_vars

\* Two workers run at the same time.
C16_Witness ==
    \E a, b \in DOMAIN call.workers :
        a # b /\ call.workers[a].st = "running" /\ call.workers[b].st = "running"

\* C17: when no header is stored for the block, verify_one returns the
\* missing-header error for that block, before any tree work.
C17_MissingHeaderError ==
    (ret.op = "verify_one" /\ ret.fault = "none" /\ ~db.headers[ret.in_block].present) =>
        /\ ret.kind = "MissingHeader"
        /\ ret.block = ret.in_block
        /\ ret.computed = NoFelt

\* C18: for a block n > 0 without updates, verify_one accepts exactly when
\* the header's storage_commitment equals the storage_commitment of block
\* n - 1, and the set of new trie nodes it returns is empty.
C18_NoOpBlock ==
    (/\ ret.op = "verify_one" /\ ret.fault = "none"
     /\ ret.in_block > 0
     /\ db.headers[ret.in_block].present
     /\ db.headers[Parent(ret.in_block)].present) =>
        /\ (ret.kind = "Ok" /\ ret.ok.contract_updates = EmptyContractUpdates) =>
              /\ db.headers[ret.in_block].storage_commitment
                    = db.headers[Parent(ret.in_block)].storage_commitment
              /\ ret.ok.trie_nodes = {}
        /\ (db.headers[ret.in_block].storage_commitment
               = db.headers[Parent(ret.in_block)].storage_commitment) =>
              verify_one(db, PeerData(ret.in_peer, ret.in_block, EmptyContractUpdates),
                         FALSE, "none").ret.kind = "Ok"

\* The rounds applied are `a` full rounds, then `b` partial rounds, then
\* `c` full rounds.
RoundsAre(a, b, c) ==
    /\ Len(pos.trace) = a + b + c
    /\ \A k \in 1..Len(pos.trace) :
          pos.trace[k].kind = IF k <= a \/ k > a + b THEN "full" ELSE "partial"

Cube(a) == (a * a * a) % PoseidonP

MdsMix(x) ==
    <<(3 * x[1] + x[2] + x[3]) % PoseidonP,
      (x[1] + (PoseidonP - x[2]) + x[3]) % PoseidonP,
      (x[1] + x[2] + 2 * (PoseidonP - x[3])) % PoseidonP>>

Const(i) == POSEIDON_COMP_CONSTS(i)

\* C20: a full round adds the constants idx, idx + 1, idx + 2 to lanes 0,
\* 1, 2, cubes every lane and mixes; a partial round adds the constant idx
\* to lane 2, cubes lane 2 and mixes; the table is read at 0, 1, 2, ... in
\* this order, 3 reads per full round and 1 per partial round, no index twice.
C20_RoundSteps ==
    /\ [](\A k \in 1..Len(pos.reads) : pos.reads[k] = k - 1)
    /\ [][/\ pos.pc \in {"full_first", "full_last"} =>
               /\ pos'.state = MdsMix(<<Cube((pos.state[1] + Const(pos.idx)) % PoseidonP),
                                        Cube((pos.state[2] + Const(pos.idx + 1)) % PoseidonP),
                                        Cube((pos.state[3] + Const(pos.idx + 2)) % PoseidonP)>>)
               /\ pos'.reads = pos.reads \o <<pos.idx, pos.idx + 1, pos.idx + 2>>
               /\ pos'.idx = pos.idx + 3
               /\ pos'.trace[Len(pos'.trace)].kind = "full"
          /\ pos.pc = "partial" =>
               /\ pos'.state = MdsMix(<<pos.state[1], pos.state[2],
                                        Cube((pos.state[3] + Const(pos.idx)) % PoseidonP)>>)
               /\ pos'.reads = Append(pos.reads, pos.idx)
               /\ pos'.idx = pos.idx + 1
               /\ pos'.trace[Len(pos'.trace)].kind = "partial"]_vars

\* permute has returned after reading the table through its last index.
C20_Witness ==
    /\ pos.pc = "done"
    /\ Len(pos.reads) = 3 * Cardinality({k \in 1..Len(pos.trace) : pos.trace[k].kind = "full"})
                        + Cardinality({k \in 1..Len(pos.trace) : pos.trace[k].kind = "partial"})
    /\ pos.state # <<0, 0, 0>>

\* C21: mix replaces the state (a, b, c) with the product of the MDS matrix
\* ((3,1,1),(1,-1,1),(1,1,-2)) and the state, (3a+b+c, a-b+c, a+b-2c),
\* which is (t+2a, t-2b, t-3c) with t = a+b+c of the state handed to mix.
C21_MixIsMds ==
    \A k \in 1..Len(pos.trace) :
        LET a == pos.trace[k].mix_in[1]
            b == pos.trace[k].mix_in[2]
            c == pos.trace[k].mix_in[3]
            t == a + b + c
        IN /\ pos.trace[k].mix_out = MdsMix(pos.trace[k].mix_in)
           /\ pos.trace[k].mix_out = <<(3 * a + b + c) % PoseidonP,
                                       (a - b + c + PoseidonP) % PoseidonP,
                                       (a + b - 2 * c + 2 * PoseidonP) % PoseidonP>>
           /\ pos.trace[k].mix_out = <<(t + 2 * a) % PoseidonP,
                                       (t - 2 * b + 2 * PoseidonP) % PoseidonP,
                                       (t - 3 * c + 3 * PoseidonP) % PoseidonP>>

\* mix has run in a full round and in a partial round on states whose three
\* lanes are all non-zero and not all equal.
C21_Witness ==
    \A kind \in {"full", "partial"} :
        \E k \in 1..Len(pos.trace) :
            /\ pos.trace[k].kind = kind
            /\ \A j \in 1..3 : pos.trace[k].mix_in[j] # 0
            /\ pos.trace[k].mix_in[1] # pos.trace[k].mix_in[2]

\* C23: verify_one starts the computation of block n from the global tree
\* that results from block n - 1, also when block n - 1 was verified just
\* before in the same batch, and from the empty tree when n is genesis; the
\* verify_hashes flag of the call is given to the global tree and to every
\* worker.
C23_StartsFromParentTree ==
    /\ [](\A a \in DOMAIN call.workers :
            call.workers[a].st # "waiting" =>
                call.workers[a].verify_hashes = call.verify_hashes)
    /\ [][(call.pc = "next" /\ call'.pc = "workers") =>
            /\ call'.tree_verify_hashes = call.verify_hashes
            /\ call'.x.block_number = GENESIS => call'.tree0 = EmptyTree
            /\ (/\ call'.x.block_number # GENESIS
                /\ call.out # <<>>
                /\ call.out[Len(call.out)].in_block = Parent(call'.x.block_number)) =>
                  /\ call'.tree0 = call.tree
                  /\ RootHash(call'.tree0) = call.out[Len(call.out)].computed]_vars

\* C24: the verify_one runs of a call are those of the input blocks, in
\* input order, up to the first that fails.  When every block verifies the
\* call returns Ok with one VerificationOk per input block in input order;
\* otherwise it returns the error of the first failing block, no later
\* block is verified and the results of the earlier blocks are dropped.
C24_BatchResult ==
    call.pc = "returned" =>
        LET n == Len(call.runs)
        IN /\ n = Len(call.processed) /\ n >= 1 /\ n <= Len(call.input)
           /\ \A i \in 1..n :
                 /\ call.processed[i] = call.input[i].block_number
                 /\ call.runs[i].in_block = call.input[i].block_number
                 /\ call.runs[i].in_peer = call.input[i].peer
                 /\ i < n => call.runs[i].kind = "Ok"
           /\ IF call.runs[n].kind = "Ok"
              THEN /\ n = Len(call.input)
                   /\ call.returned = "Ok"
                   /\ call.out = call.runs
                   /\ \A i \in 1..n :
                         /\ call.out[i].ok.block_number = call.input[i].block_number
                         /\ call.out[i].ok.contract_updates = call.input[i].contract_updates
              ELSE /\ call.returned = "Err"
                   /\ call.outcome = call.runs[n]
                   /\ call.outcome.kind \in ErrorKinds
                   /\ call.out = <<>>
                   /\ call.queue = SubSeq(call.input, n + 1, Len(call.input))

\* The call returned the error of its second block after the first, which
\* carried updates, had verified.
C24_Witness ==
    /\ call.pc = "returned" /\ call.returned = "Err"
    /\ Len(call.runs) = 2 /\ call.runs[1].kind = "Ok"
    /\ call.runs[1].ok.contract_updates # EmptyContractUpdates

\* C25: persist on a non-empty batch whose blocks all have a stored header,
\* when no database call fails, returns the block number of the last
\* element of the batch after one insert_state_update per element in batch
\* order; on an empty batch it returns an error and inserts nothing.
C25_PersistTail ==
    ret.op = "persist" =>
        /\ (/\ ret.batch # <<>>
            /\ ret.fault = "none"
            /\ \A i \in 1..Len(ret.batch) : db.headers[ret.batch[i]].present) =>
              /\ ret.kind = "Ok"
              /\ ret.block = ret.batch[Len(ret.batch)]
              /\ ret.inserts = ret.batch
        /\ ret.batch = <<>> =>
              /\ ret.kind = "DatabaseOrComputeError"
              /\ ret.inserts = <<>>

\* persist returned Ok for a batch whose last block is not its highest.
C25_Witness ==
    /\ ret.op = "persist" /\ ret.kind = "Ok"
    /\ Len(ret.batch) > 1
    /\ \E i \in 1..Len(ret.batch) : ret.batch[i] > ret.block

\* The ContractUpdates that differ from cu at most in the nonce and class
\* fields of the system updates.
SystemVariants(cu) ==
    {v \in FullContractUpdates :
        /\ v.regular = cu.regular
        /\ DOMAIN v.system = DOMAIN cu.system
        /\ \A a \in DOMAIN cu.system : v.system[a].storage = cu.system[a].storage}

StateHashes(results) == [i \in 1..Len(results) |-> results[i].state_hash]

\* C26: the nonce and class fields of a system update change neither the
\* contract state hashes nor the commitment verify_one computes nor its
\* verdict (the system worker gets None for both); the state hash of a
\* regular update is the one of the nonce and class hash the update carries.
C26_SystemNonceClassIgnored ==
    (ret.op = "verify_one" /\ ret.computed # NoFelt) =>
        /\ \A v \in SystemVariants(ret.in_updates) :
              LET other == verify_one(db, PeerData(ret.in_peer, ret.in_block, v),
                                      FALSE, "none").ret
              IN /\ other.kind = ret.kind
                 /\ other.computed = ret.computed
                 /\ StateHashes(other.ok.contract_update_results)
                       = StateHashes(ret.ok.contract_update_results)
        /\ ret.kind = "Ok" =>
              \A i \in 1..Len(ret.ok.contract_update_results) :
                  LET res == ret.ok.contract_update_results[i]
                      a == res.contract_address
                  IN (/\ i <= Cardinality(DOMAIN ret.in_updates.regular)
                      /\ ret.in_updates.regular[a].nonce # NoFelt
                      /\ ret.in_updates.regular[a].class # NoFelt) =>
                        res.state_hash = ContractStateHash(ret.in_updates.regular[a].class,
                                                           res.root,
                                                           ret.in_updates.regular[a].nonce)

\* verify_one accepted a block in which a system update and a regular
\* update both carry a nonce and a class.
C26_Witness ==
    /\ ret.op = "verify_one" /\ ret.kind = "Ok"
    /\ \E a \in DOMAIN ret.in_updates.system :
          ret.in_updates.system[a].nonce # NoFelt /\ ret.in_updates.system[a].class # NoFelt
    /\ \E a \in DOMAIN ret.in_updates.regular :
          ret.in_updates.regular[a].nonce # NoFelt /\ ret.in_updates.regular[a].class # NoFelt

\* C27: a VerificationOk returned by verify_one carries the header's
\* commitment, which is the commitment computed, the header's hash, the
\* nodes the commit of the global tree returned, and one result per entry of
\* `regular` followed by one result per entry of `system`.
C27_VerificationOkFields ==
    (call.pc \in {"next", "returned"} /\ call.outcome.kind = "Ok") =>
        LET ok == call.outcome.ok
            b == call.x.block_number
            res == ok.contract_update_results
            regular == DOMAIN call.x.contract_updates.regular
            system == DOMAIN call.x.contract_updates.system
            nr == Cardinality(regular)
            ns == Cardinality(system)
        IN /\ ok.block_number = b
           /\ ok.storage_commitment = db.headers[b].storage_commitment
           /\ ok.storage_commitment = RootHash(call.tree)
           /\ ok.block_hash = db.headers[b].hash
           /\ ok.trie_nodes = TreeCommit(call.tree0, call.tree).nodes
           /\ ok.contract_updates = call.x.contract_updates
           /\ Len(res) = nr + ns
           /\ {res[i].contract_address : i \in 1..nr} = regular
           /\ {res[nr + i].contract_address : i \in 1..ns} = system
           /\ \A i \in 1..Len(res) :
                 call.tree[res[i].contract_address] = res[i].state_hash
                    \/ \E j \in (i + 1)..Len(res) :
                          res[j].contract_address = res[i].contract_address

\* verify_one returned Ok for a block with updates of two regular contracts
\* and of a system contract, and the commit returned nodes.
C27_Witness ==
    /\ call.pc \in {"next", "returned"} /\ call.outcome.kind = "Ok"
    /\ Cardinality(DOMAIN call.x.contract_updates.regular) = 2
    /\ DOMAIN call.x.contract_updates.system # {}
    /\ call.outcome.ok.trie_nodes # {}

\* C28: Block::from_scoped returns the variant the scope asks for, with
\* one entry per transaction of the sequencer block in the block's order; in
\* FullWithReceipts entry i joins transaction i with receipt i and carries
\* the transaction status derived from the block's status.
C28_ScopedTransactions ==
    ret.op = "from_scoped" =>
        LET txs == ret.block.transactions
            rcs == ret.block.transaction_receipts
            out == ret.reply.transactions
        IN /\ out.variant = (CASE ret.scope = "TransactionHashes" -> "HashesOnly"
                               [] ret.scope = "FullTransactions" -> "Full"
                               [] ret.scope = "FullTransactionsAndReceipts" -> "FullWithReceipts")
           /\ Len(out.items) = Len(txs)
           /\ \A i \in 1..Len(txs) :
                 CASE out.variant = "HashesOnly" -> out.items[i] = txs[i].transaction_hash
                   [] out.variant = "Full" ->
                        /\ out.items[i].txn_hash = txs[i].transaction_hash
                        /\ out.items[i].contract_address = txs[i].contract_address
                   [] out.variant = "FullWithReceipts" ->
                        /\ i <= Len(rcs)
                        /\ out.items[i].txn_hash = txs[i].transaction_hash
                        /\ out.items[i].contract_address = txs[i].contract_address
                        /\ Len(out.items[i].messages_sent) = Len(rcs[i].l2_to_l1_messages)
                        /\ out.items[i].l1_origin_message.payload
                              = rcs[i].l1_to_l2_consumed_message.payload
                        /\ out.items[i].status = TransactionStatus_from(ret.block.status)

\* C29: the conversion maps each of the eight sequencer statuses to a
\* BlockStatus: AcceptedOnL1 and AcceptedOnL2 to themselves, Pending and
\* Received to Pending, NotReceived, Rejected, Reverted and Aborted to
\* Rejected; it never yields Proven.
C29_BlockStatusMapping ==
    LET expected(status) ==
            IF status \in {"AcceptedOnL1", "AcceptedOnL2"} THEN status
            ELSE IF status \in {"Pending", "Received"} THEN "Pending"
            ELSE "Rejected"
    IN /\ ret.op = "BlockStatus::from" =>
             /\ ret.status \in SeqStatuses
             /\ ret.reply \in BlockStatuses \ {"Proven"}
             /\ ret.reply = expected(ret.status)
       /\ ret.op = "from_scoped" =>
             /\ ret.reply.status \in BlockStatuses \ {"Proven"}
             /\ ret.reply.status = expected(ret.block.status)

\* The status of a block that was received and not yet accepted was converted.
C29_Witness ==
    /\ ret.op = "BlockStatus::from" /\ ret.status = "Received" /\ ret.reply = "Pending"

====
